---- MODULE Spec2Model ----
(***************************************************************************)
(* Model of GatewayManager (src/src/components/GatewayManager.ts): the     *)
(* Discord gateway connection manager, its WebSocket transports (package   *)
(* ws), its timers and the promises returned by connect().                 *)
(*                                                                         *)
(* Every handler of the class runs to completion on the event loop, so     *)
(* each handler is one action.  The private methods are operators over a   *)
(* record holding the fields of the manager; an action applies the         *)
(* handler to the current fields and commits the result.                   *)
(*                                                                         *)
(* The retry loop of GPTClient.complete() (src/src/components/GPTClient.ts)*)
(* is modelled beside it, with a specification of its own (SpecComplete).  *)
(***************************************************************************)
EXTENDS Integers, Sequences, FiniteSets, TLC

\* ---------------------------------------------------------------- bounds
MaxConnects == 1     \* accepted connect() calls, each creating one WebSocket
MaxSeq == 1          \* sequence numbers range over 0..MaxSeq
MaxJitter == 1       \* invalid-session jitter timers pending at once
MaxTransports == 2   \* accepted connect() calls in SpecRestart
MaxListeners == 2    \* listeners registered for one event in SpecEmitter
MaxRetries == 3      \* maxRetries of a GPTClient ranges over 0..MaxRetries

NULL == "null"
NoSeq == -1          \* sequence === null
NoSocket == 0        \* ws === null
SessionIds == {"abc"}
Seqs == 0..MaxSeq
SeqOrNull == Seqs \cup {NoSeq}
Sockets == 1..MaxTransports

\* enum ConnectionState
ConnectionState == {"DISCONNECTED", "CONNECTING", "CONNECTED", "RECONNECTING", "RESUMING"}

\* Close codes a 'close' event can carry: normal closure (1000), abnormal
\* closure without a close frame (1006), and a gateway-specific code (4000).
Codes == {1000, 1006, 4000}

\* Life of one ws.WebSocket.  NONE: not created.  CONNECTING, OPEN: as in
\* ws.  CLOSING: close() was called on an open socket; frames the server
\* sent before its close frame are still delivered.  ABORTING: close() was
\* called while CONNECTING; ws then emits 'error' and 'close' (1006).
\* DEAD: ws emitted 'error'; only 'close' is still to come.  CLOSED: done.
ReadyStates == {"NONE", "CONNECTING", "OPEN", "CLOSING", "ABORTING", "DEAD", "CLOSED"}

\* Values of Math.random(), in thousandths: the least and the greatest.
Randoms == {0, 999}
NoDelay == 0         \* no reconnect timer pending
DrawDelay == -1      \* reconnect() armed its timer; Math.random() is drawn at commit

\* Event names a handler is registered under, and the handlers registered;
\* hThrows is a handler that throws when it is invoked.
EventNames == {"READY", "MESSAGE_CREATE"}
Handlers == {"h1", "h2", "hThrows"}

\* Events of the manager's emitter and the functions registered as their
\* listeners; lThrows is a function that throws when it is called.
EmitterEvents == {"connected", "error"}
ListenerFns == {"l1", "l2", "lThrows"}

\* GPTClient (src/src/components/GPTClient.ts).  retryDelay of a client, in ms.
\* What one call of the chat completion API comes to: the call rejects
\* (ok = FALSE), or it resolves with a response whose first choice has the
\* content given, a string written as the sequence of its characters; a
\* response without choices or content is written as the empty string, which
\* the test !content treats alike.
RetryDelays == {250, 1000}
Contents == {<<>>, <<" ">>, <<"a">>, <<" ", "a", " ">>}
ApiResponses == [ok : {TRUE}, content : Contents] \cup [ok : {FALSE}, content : {<<>>}]

\* Inbound gateway payloads {op, d, s, t}.  complete: the payload has the
\* fields its handler reads (d of HELLO; d.user of READY).
Frames ==
    [op : {"HELLO", "HEARTBEAT_ACK", "RECONNECT", "UNKNOWN"}, s : {NoSeq}, t : {NULL}, d : {NULL},
     complete : {TRUE}]
    \cup [op : {"INVALID_SESSION"}, s : {NoSeq}, t : {NULL}, d : {"true", "false"}, complete : {TRUE}]
    \cup [op : {"DISPATCH"}, s : SeqOrNull, t : {"READY"}, d : SessionIds, complete : {TRUE}]
    \cup [op : {"DISPATCH"}, s : SeqOrNull, t : {"RESUMED", "MESSAGE_CREATE"}, d : {NULL},
          complete : {TRUE}]

\* Malformed inbound data: text JSON.parse rejects, a HELLO without d, and a
\* READY whose d has a session_id but no user.
MalformedFrames ==
    [op : {"UNPARSEABLE"}, s : {NoSeq}, t : {NULL}, d : {NULL}, complete : {FALSE}]
    \cup [op : {"HELLO"}, s : {NoSeq}, t : {NULL}, d : {NULL}, complete : {FALSE}]
    \cup [op : {"DISPATCH"}, s : SeqOrNull, t : {"READY"}, d : SessionIds, complete : {FALSE}]

VARIABLES
    state,              \* this.state
    sessionId,          \* this.sessionId
    sequence,           \* this.sequence
    ws,                 \* this.ws: NoSocket or the socket held
    heartbeatInterval,  \* this.heartbeatInterval: NULL or "timer"
    lastHeartbeatAck,   \* this.lastHeartbeatAck
    reconnectTimeout,   \* this.reconnectTimeout: NULL, "armed" or "fired"
    liveHeartbeats,     \* number of setInterval timers not cleared
    liveReconnects,     \* number of reconnect setTimeout timers pending
    reconnectDelay,     \* delay in ms of the pending reconnect timer, or NoDelay
    readyState,         \* readyState of every socket created
    calls,              \* accepted connect() calls: promise, timeout, listeners
    jitter,             \* pending invalid-session timers, by callback
    sent,               \* frames sent by the last handler
    emitted,            \* events emitted by the last handler
    last,               \* the last handler that ran
    explicitShutdown,   \* disconnect() was called and connect() not since
    heartbeatSent,      \* the heartbeat sent last on the transport held, while it matters
    normalClosure,      \* a close 1000 ended a CONNECTED session and connect() not since
    messageHandlers,    \* this.messageHandlers: a Map, as its entries in insertion order
    delivered,          \* what the handler and the listeners called by the last handler saw
    _events,            \* this._events: for each event the array of its listeners
    invoked,            \* the functions the last emit() called, in the order of the calls
    gptClient           \* a GPTClient and the call of complete() it runs

vars == <<state, sessionId, sequence, ws, heartbeatInterval, lastHeartbeatAck,
          reconnectTimeout, liveHeartbeats, liveReconnects, readyState, calls,
          jitter, sent, emitted, last, explicitShutdown, reconnectDelay,
          heartbeatSent, normalClosure, messageHandlers, delivered, _events, invoked,
          gptClient>>

\* The fields a handler works on, as one record.
Cur ==
    [state |-> state, sessionId |-> sessionId, sequence |-> sequence, ws |-> ws,
     heartbeatInterval |-> heartbeatInterval, lastHeartbeatAck |-> lastHeartbeatAck,
     reconnectTimeout |-> reconnectTimeout, liveHeartbeats |-> liveHeartbeats,
     liveReconnects |-> liveReconnects, reconnectDelay |-> reconnectDelay,
     readyState |-> readyState, calls |-> calls,
     jitter |-> jitter, sent |-> <<>>, emitted |-> <<>>, res |-> NULL,
     jitterDelay |-> NoDelay, messageHandlers |-> messageHandlers,
     delivered |-> <<>>, thrown |-> FALSE]

\* ------------------------------------------------------------ the ws library
\* WebSocket.close() as cleanup() calls it: only when OPEN or CONNECTING.
wsClose(rs, k) ==
    IF rs[k] = "OPEN" THEN [rs EXCEPT ![k] = "CLOSING"]
    ELSE IF rs[k] = "CONNECTING" THEN [rs EXCEPT ![k] = "ABORTING"]
    ELSE rs

\* this.ws && this.ws.readyState === WebSocket.OPEN
wsIsOpen(s) == s.ws # NoSocket /\ s.readyState[s.ws] = "OPEN"

\* ------------------------------------------------------------ the Map of handlers
\* Map.prototype.has, get, set and delete on the entries of a Map.
mapHas(m, k) == \E i \in DOMAIN m : m[i].key = k

mapGet(m, k) ==
    m[CHOOSE i \in DOMAIN m : m[i].key = k /\ \A j \in 1..(i - 1) : m[j].key # k].value

mapSet(m, k, v) ==
    IF mapHas(m, k)
    THEN [i \in DOMAIN m |-> IF m[i].key = k THEN [key |-> k, value |-> v] ELSE m[i]]
    ELSE Append(m, [key |-> k, value |-> v])

mapDelete(m, k) == SelectSeq(m, LAMBDA e : e.key # k)

\* ------------------------------------------------------------ the emitter
\* A listener in an array of _events: the function passed to on(), or the
\* onceListener closure once() wraps around it.  Every call of once() makes a
\* new closure; id tells the closures apart, and is 0 for a plain function.
plainListener(fn) == [fn |-> fn, once |-> FALSE, id |-> 0]

newClosureId(es) ==
    CHOOSE n \in 1..(2 * MaxListeners + 1) :
        \A e \in EmitterEvents : \A i \in DOMAIN es[e] : es[e][i].id # n

on(es, event, listener) == [es EXCEPT ![event] = Append(@, listener)]

off(es, event, listener) == [es EXCEPT ![event] = SelectSeq(@, LAMBDA l : l # listener)]

once(es, event, fn) == on(es, event, [fn |-> fn, once |-> TRUE, id |-> newClosureId(es)])

\* forEach without the try/catch around the call: the first listener that
\* throws ends the loop.
RECURSIVE forEach_withoutCatch(_, _, _, _, _)
forEach_withoutCatch(array, i, es, event, called) ==
    IF i > Len(array) THEN [events |-> es, invoked |-> called]
    ELSE LET listener == array[i]
             es1 == IF listener.once THEN off(es, event, listener) ELSE es
         IN  IF listener.fn = "lThrows"
             THEN [events |-> es1, invoked |-> Append(called, listener.fn)]
             ELSE forEach_withoutCatch(array, i + 1, es1, event, Append(called, listener.fn))

emit_withoutCatch(es, event) == forEach_withoutCatch(es[event], 1, es, event, <<>>)

\* this._events[event].forEach(...): the loop runs over the array emit() found;
\* off() called by a onceListener puts a filtered copy in its place.  What a
\* listener throws is caught and logged, and the loop goes on.
RECURSIVE forEach(_, _, _, _, _)
forEach(array, i, es, event, called) ==
    IF i > Len(array) THEN [events |-> es, invoked |-> called]
    ELSE LET listener == array[i]
             es1 == IF listener.once THEN off(es, event, listener) ELSE es
         IN  forEach(array, i + 1, es1, event, Append(called, listener.fn))

emit(es, event) == forEach(es[event], 1, es, event, <<>>)

\* ------------------------------------------------------------ GPTClient
\* String.prototype.trim(), on a string of spaces and letters.
RECURSIVE trimStart(_)
trimStart(str) ==
    IF str # <<>> /\ Head(str) = " " THEN trimStart(Tail(str)) ELSE str

RECURSIVE trimEnd(_)
trimEnd(str) ==
    IF str # <<>> /\ str[Len(str)] = " " THEN trimEnd(SubSeq(str, 1, Len(str) - 1)) ELSE str

trim(str) == trimEnd(trimStart(str))

\* The test of the while loop; below the loop the handled error is thrown.
whileRetries(g) ==
    IF g.retries <= g.maxRetries
    THEN [g EXCEPT !.pc = "request"]
    ELSE [g EXCEPT !.pc = "thrown"]

\* complete() up to its first await.
complete(g) ==
    whileRetries([g EXCEPT !.retries = 0, !.results = <<>>, !.delays = <<>>,
                           !.returned = <<>>])

\* The catch block with the delay retryDelay * Math.pow(2, retries).
catchError_doublesFirstDelay(g) ==
    LET g1 == [g EXCEPT !.retries = @ + 1]
    IN  IF g1.retries > g1.maxRetries
        THEN [g1 EXCEPT !.pc = "thrown"]
        ELSE [g1 EXCEPT !.pc = "waiting",
                        !.delays = Append(@, g1.retryDelay * 2 ^ g1.retries)]

\* The catch block, up to the await of the retry timer.
catchError(g) ==
    LET g1 == [g EXCEPT !.retries = @ + 1]
    IN  IF g1.retries > g1.maxRetries
        THEN [g1 EXCEPT !.pc = "thrown"]
        ELSE [g1 EXCEPT !.pc = "waiting",
                        !.delays = Append(@, g1.retryDelay * 2 ^ (g1.retries - 1))]

\* The continuation of the await of the API call: the try block from the
\* response on, or the catch block when the call rejected.
apiResponds(g, response) ==
    LET g1 == [g EXCEPT !.results = Append(@, response)]
        content == trim(response.content)
    IN  IF response.ok /\ content # <<>>
        THEN [g1 EXCEPT !.pc = "returned", !.returned = content]
        ELSE catchError(g1)

\* ------------------------------------------------------------ private methods
\* cleanup() that also forgets the session.
cleanup_clearsSession(s) ==
    LET s1 == IF s.ws # NoSocket
              THEN [s EXCEPT !.readyState = wsClose(s.readyState, s.ws), !.ws = NoSocket]
              ELSE s
        s2 == IF s1.heartbeatInterval # NULL
              THEN [s1 EXCEPT !.heartbeatInterval = NULL, !.liveHeartbeats = @ - 1]
              ELSE s1
        s3 == IF s2.reconnectTimeout # NULL
              THEN [s2 EXCEPT !.reconnectTimeout = NULL, !.reconnectDelay = NoDelay,
                              !.liveReconnects = IF s2.reconnectTimeout = "armed" THEN @ - 1 ELSE @]
              ELSE s2
    IN  [s3 EXCEPT !.sessionId = NULL, !.sequence = NoSeq]

cleanup(s) ==
    LET s1 == IF s.ws # NoSocket
              THEN [s EXCEPT !.readyState = wsClose(s.readyState, s.ws), !.ws = NoSocket]
              ELSE s
        s2 == IF s1.heartbeatInterval # NULL
              THEN [s1 EXCEPT !.heartbeatInterval = NULL, !.liveHeartbeats = @ - 1]
              ELSE s1
        s3 == IF s2.reconnectTimeout # NULL
              THEN [s2 EXCEPT !.reconnectTimeout = NULL, !.reconnectDelay = NoDelay,
                              !.liveReconnects = IF s2.reconnectTimeout = "armed" THEN @ - 1 ELSE @]
              ELSE s2
    IN  s3

\* The delay of the reconnect timer with Math.random() * 6000 for * 5000.
reconnectDelayOf_sixSeconds(r) == (r * 6000) \div 1000 + 1000

\* Math.floor(Math.random() * 5000) + 1000, for Math.random() = r / 1000.
reconnectDelayOf(r) == (r * 5000) \div 1000 + 1000

reconnect(s) ==
    IF s.state = "RECONNECTING" THEN s
    ELSE LET s1 == cleanup([s EXCEPT !.state = "RECONNECTING"])
         IN  [s1 EXCEPT !.reconnectTimeout = "armed", !.liveReconnects = @ + 1,
                        !.reconnectDelay = DrawDelay]

\* onConnected without its clearTimeout(connectionTimeout).
onConnected_keepsTimeout(c) ==
    IF c.onConnected
    THEN [c EXCEPT !.onConnected = FALSE,
                   !.promise = IF @ = "pending" THEN "resolved" ELSE @]
    ELSE c

\* handleResumed without the assignment to this.state.
handleResumed_keepsState(s) ==
    [s EXCEPT !.emitted = Append(@, "resumed")]

\* emit('connected'): the onConnected listener of every connect() call that
\* still has one registered: once() removes it, then clearTimeout, resolve(true).
onConnected(c) ==
    IF c.onConnected
    THEN [c EXCEPT !.onConnected = FALSE,
                   !.timeout = IF @ = "armed" THEN "cleared" ELSE @,
                   !.promise = IF @ = "pending" THEN "resolved" ELSE @]
    ELSE c

emitConnected(s) ==
    [s EXCEPT !.calls = [i \in DOMAIN s.calls |-> onConnected(s.calls[i])],
              !.emitted = Append(@, "connected")]

\* onError without its clearTimeout(connectionTimeout).
onError_keepsTimeout(c) ==
    IF c.onError
    THEN [c EXCEPT !.onError = FALSE,
                   !.promise = IF @ = "pending" THEN "rejected" ELSE @,
                   !.reason = IF c.promise = "pending" THEN "TransportError" ELSE @]
    ELSE c

\* emit('error'): the onError listener of every connect() call that still has
\* one registered: once() removes it, then clearTimeout, cleanup(), reject(error).
onError(c) ==
    IF c.onError
    THEN [c EXCEPT !.onError = FALSE,
                   !.timeout = IF @ = "armed" THEN "cleared" ELSE @,
                   !.promise = IF @ = "pending" THEN "rejected" ELSE @,
                   !.reason = IF c.promise = "pending" THEN "TransportError" ELSE @]
    ELSE c

emitError(s) ==
    LET s1 == IF \E i \in DOMAIN s.calls : s.calls[i].onError THEN cleanup(s) ELSE s
    IN  [s1 EXCEPT !.calls = [i \in DOMAIN s.calls |-> onError(s.calls[i])],
                   !.emitted = Append(@, "error")]

\* setupHeartbeat() without the clearInterval of the existing timer.
setupHeartbeat_withoutClear(s) ==
    [s EXCEPT !.lastHeartbeatAck = TRUE, !.heartbeatInterval = "timer",
              !.liveHeartbeats = @ + 1]

setupHeartbeat(s) ==
    LET s1 == IF s.heartbeatInterval # NULL
              THEN [s EXCEPT !.liveHeartbeats = @ - 1]
              ELSE s
    IN  [s1 EXCEPT !.lastHeartbeatAck = TRUE, !.heartbeatInterval = "timer",
                   !.liveHeartbeats = @ + 1]

identify(s) ==
    IF ~wsIsOpen(s) THEN s
    ELSE [s EXCEPT !.sent = Append(@, [op |-> "IDENTIFY", sock |-> s.ws,
                                       session_id |-> NULL, seq |-> NoSeq])]

\* resume() without its fallback to identify() when no session is stored.
resume_withoutGuard(s) ==
    IF ~wsIsOpen(s) THEN s
    ELSE [s EXCEPT !.sent = Append(@, [op |-> "RESUME", sock |-> s.ws,
                                       session_id |-> s.sessionId, seq |-> s.sequence])]

resume(s) ==
    IF ~wsIsOpen(s) THEN s
    ELSE IF s.sessionId = NULL \/ s.sequence = NoSeq THEN identify(s)
    ELSE [s EXCEPT !.sent = Append(@, [op |-> "RESUME", sock |-> s.ws,
                                       session_id |-> s.sessionId, seq |-> s.sequence])]

handleHello(s, payload) ==
    IF ~payload.complete THEN [s EXCEPT !.thrown = TRUE]
    ELSE
    LET s1 == setupHeartbeat(s)
    IN  IF s1.sessionId # NULL /\ s1.sequence # NoSeq /\ s1.state = "RESUMING"
        THEN resume(s1)
        ELSE identify(s1)

\* sendHeartbeat() sending again, instead of reconnecting, on a missed ack.
sendHeartbeat_resendsOnMissedAck(s) ==
    IF ~wsIsOpen(s) THEN s
    ELSE [s EXCEPT !.sent = Append(@, [op |-> "HEARTBEAT", sock |-> s.ws,
                                       session_id |-> NULL, seq |-> s.sequence]),
                   !.lastHeartbeatAck = FALSE]

\* sendHeartbeat() without the lastHeartbeatAck = false after the send.
sendHeartbeat_keepsAckFlag(s) ==
    IF ~wsIsOpen(s) THEN s
    ELSE IF ~s.lastHeartbeatAck THEN reconnect(s)
    ELSE [s EXCEPT !.sent = Append(@, [op |-> "HEARTBEAT", sock |-> s.ws,
                                       session_id |-> NULL, seq |-> s.sequence])]

sendHeartbeat(s) ==
    IF ~wsIsOpen(s) THEN s
    ELSE IF ~s.lastHeartbeatAck THEN reconnect(s)
    ELSE [s EXCEPT !.sent = Append(@, [op |-> "HEARTBEAT", sock |-> s.ws,
                                       session_id |-> NULL, seq |-> s.sequence]),
                   !.lastHeartbeatAck = FALSE]

handleHeartbeatAck(s) == [s EXCEPT !.lastHeartbeatAck = TRUE]

\* 2000 + Math.random() * 3000, for Math.random() = r / 1000.
invalidSessionDelayOf(r) == 2000 + (r * 3000) \div 1000

\* handleInvalidSession clearing the session whatever resumable is.
handleInvalidSession_alwaysClears(s, resumable) ==
    IF resumable = "true"
    THEN [s EXCEPT !.sessionId = NULL, !.sequence = NoSeq, !.jitter.resume = @ + 1,
                   !.jitterDelay = DrawDelay]
    ELSE [s EXCEPT !.sessionId = NULL, !.sequence = NoSeq, !.jitter.identify = @ + 1,
                   !.jitterDelay = DrawDelay]

\* handleInvalidSession without this.sequence = null.
handleInvalidSession_keepsSequence(s, resumable) ==
    IF resumable = "true"
    THEN [s EXCEPT !.jitter.resume = @ + 1, !.jitterDelay = DrawDelay]
    ELSE [s EXCEPT !.sessionId = NULL, !.jitter.identify = @ + 1,
                   !.jitterDelay = DrawDelay]

handleInvalidSession(s, resumable) ==
    IF resumable = "true"
    THEN [s EXCEPT !.jitter.resume = @ + 1, !.jitterDelay = DrawDelay]
    ELSE [s EXCEPT !.sessionId = NULL, !.sequence = NoSeq, !.jitter.identify = @ + 1,
                   !.jitterDelay = DrawDelay]

\* handleReady without the assignment to this.state.
handleReady_keepsState(s, data) ==
    [s EXCEPT !.sessionId = data.session_id,
              !.calls = [i \in DOMAIN s.calls |->
                            IF s.calls[i].onConnected
                            THEN [s.calls[i] EXCEPT !.onConnected = FALSE,
                                     !.timeout = IF @ = "armed" THEN "cleared" ELSE @,
                                     !.promise = IF @ = "pending" THEN "resolved" ELSE @]
                            ELSE s.calls[i]],
              !.emitted = Append(@, "connected")]

\* The logger call reads data.user.username and throws when d has no user.
handleReady(s, data) ==
    LET s1 == [s EXCEPT !.sessionId = data.session_id, !.state = "CONNECTED"]
    IN  IF ~data.user THEN [s1 EXCEPT !.thrown = TRUE] ELSE emitConnected(s1)

handleResumed(s) ==
    [s EXCEPT !.state = "CONNECTED", !.emitted = Append(@, "resumed")]

\* What user code called at this point observes.
observes(s, to, h, t) ==
    [to |-> to, handler |-> h, t |-> t,
     state |-> s.state, sessionId |-> s.sessionId, sequence |-> s.sequence]

\* handler(eventData): the call of the handler registered for the event.
callHandler(s, t) ==
    LET h == mapGet(s.messageHandlers, t)
    IN  [s EXCEPT !.delivered = Append(@, observes(s, "handler", h, t)),
                  !.thrown = (h = "hThrows")]

\* handleDispatch calling the generic listeners before the registered handler.
handleDispatch_listenersFirst(s, payload) ==
    LET eventData == [session_id |-> payload.d, user |-> payload.complete]
        s0 == [s EXCEPT !.emitted = Append(@, "message"),
                        !.delivered = Append(@, observes(s, "listeners", NULL, payload.t))]
        s1 == IF payload.t = "READY" THEN handleReady(s0, eventData) ELSE s0
        s2 == IF ~s1.thrown /\ payload.t = "RESUMED" THEN handleResumed(s1) ELSE s1
    IN  IF ~s2.thrown /\ mapHas(s2.messageHandlers, payload.t)
        THEN callHandler(s2, payload.t)
        ELSE s2

\* An exception leaves handleDispatch at the statement that throws.
handleDispatch(s, payload) ==
    LET eventData == [session_id |-> payload.d, user |-> payload.complete]
        s1 == IF payload.t = "READY" THEN handleReady(s, eventData) ELSE s
        s2 == IF ~s1.thrown /\ payload.t = "RESUMED" THEN handleResumed(s1) ELSE s1
        s3 == IF ~s2.thrown /\ mapHas(s2.messageHandlers, payload.t)
              THEN callHandler(s2, payload.t)
              ELSE s2
    IN  IF s3.thrown THEN s3
        ELSE [s3 EXCEPT !.emitted = Append(@, "message"),
                        !.delivered = Append(@, observes(s3, "listeners", NULL, payload.t))]

\* handleGatewayPayload storing payload.s without the test for null.
handleGatewayPayload_storesNull(s, payload) ==
    LET s1 == [s EXCEPT !.sequence = payload.s]
    IN  CASE payload.op = "HELLO" -> handleHello(s1, payload)
          [] payload.op = "HEARTBEAT_ACK" -> handleHeartbeatAck(s1)
          [] payload.op = "RECONNECT" -> reconnect(s1)
          [] payload.op = "INVALID_SESSION" -> handleInvalidSession(s1, payload.d)
          [] payload.op = "DISPATCH" -> handleDispatch(s1, payload)
          [] OTHER -> s1

handleGatewayPayload(s, payload) ==
    LET s1 == IF payload.s # NoSeq THEN [s EXCEPT !.sequence = payload.s] ELSE s
    IN  CASE payload.op = "HELLO" -> handleHello(s1, payload)
          [] payload.op = "HEARTBEAT_ACK" -> handleHeartbeatAck(s1)
          [] payload.op = "RECONNECT" -> reconnect(s1)
          [] payload.op = "INVALID_SESSION" -> handleInvalidSession(s1, payload.d)
          [] payload.op = "DISPATCH" -> handleDispatch(s1, payload)
          [] OTHER -> s1

\* The ws 'message' listener: JSON.parse and handleGatewayPayload in one try
\* block; whatever they throw is logged.
messageListener(s, data) ==
    IF data.op = "UNPARSEABLE" THEN s ELSE handleGatewayPayload(s, data)

handleDisconnect(s, code) ==
    LET s1 == cleanup(s)
    IN  IF code = 1000
        THEN [s1 EXCEPT !.state = "DISCONNECTED", !.emitted = Append(@, "disconnected")]
        ELSE reconnect(s1)

\* ------------------------------------------------------------ public methods
\* connect() with the assignment of CONNECTING moved above the state guard.
connect_assignsBeforeGuard(s, caller) ==
    IF s.state # "DISCONNECTED" THEN [s EXCEPT !.state = "CONNECTING", !.res = "false"]
    ELSE LET k == Len(s.calls) + 1
         IN  [s EXCEPT !.state = "CONNECTING", !.ws = k,
                       !.readyState = [@ EXCEPT ![k] = "CONNECTING"],
                       !.calls = Append(@, [promise |-> "pending", reason |-> "none",
                                            timeout |-> "armed",
                                            onConnected |-> TRUE, onError |-> TRUE,
                                            caller |-> caller, gotReady |-> FALSE]),
                       !.res = "pending"]

\* connect() up to the point where it returns false or suspends on the promise.
connect(s, caller) ==
    IF s.state # "DISCONNECTED" THEN [s EXCEPT !.res = "false"]
    ELSE LET k == Len(s.calls) + 1
         IN  [s EXCEPT !.state = "CONNECTING", !.ws = k,
                       !.readyState = [@ EXCEPT ![k] = "CONNECTING"],
                       !.calls = Append(@, [promise |-> "pending", reason |-> "none", timeout |-> "armed",
                                            onConnected |-> TRUE, onError |-> TRUE,
                                            caller |-> caller, gotReady |-> FALSE]),
                       !.res = "pending"]

\* onMessage adding the handler without replacing the one registered.
onMessage_appends(s, eventType, handler) ==
    [s EXCEPT !.messageHandlers = Append(@, [key |-> eventType, value |-> handler])]

onMessage(s, eventType, handler) ==
    [s EXCEPT !.messageHandlers = mapSet(@, eventType, handler)]

offMessage(s, eventType) ==
    [s EXCEPT !.messageHandlers = mapDelete(@, eventType)]

\* disconnect() without its call of cleanup().
disconnect_withoutCleanup(s) ==
    [s EXCEPT !.state = "DISCONNECTED", !.emitted = Append(@, "disconnected")]

disconnect(s) ==
    LET s1 == cleanup([s EXCEPT !.state = "DISCONNECTED"])
    IN  [s1 EXCEPT !.emitted = Append(@, "disconnected")]

\* ------------------------------------------------------------ timer callbacks
\* The connectionTimeout callback without its call of cleanup().
connectionTimeout_withoutCleanup(s, c) ==
    LET s0 == [s EXCEPT !.calls[c].timeout = "fired"]
    IN  IF s0.state # "CONNECTED"
        THEN [s0 EXCEPT !.calls[c].promise = IF @ = "pending" THEN "rejected" ELSE @,
                        !.calls[c].reason = IF s0.calls[c].promise = "pending"
                                            THEN "Timeout" ELSE @]
        ELSE s0

\* The 30 s connectionTimeout of call c.
connectionTimeout(s, c) ==
    LET s0 == [s EXCEPT !.calls[c].timeout = "fired"]
    IN  IF s0.state # "CONNECTED"
        THEN LET s1 == cleanup(s0)
             IN  [s1 EXCEPT !.calls[c].promise = IF @ = "pending" THEN "rejected" ELSE @,
                            !.calls[c].reason = IF s1.calls[c].promise = "pending"
                                                THEN "Timeout" ELSE @]
        ELSE s0

\* The callback of reconnectTimeout, up to the await of connect().
reconnectTimer(s) ==
    LET s0 == [s EXCEPT !.reconnectTimeout = "fired", !.liveReconnects = @ - 1,
                        !.reconnectDelay = NoDelay]
        s1 == IF s0.sessionId # NULL /\ s0.sequence # NoSeq
              THEN [s0 EXCEPT !.state = "RESUMING"]
              ELSE s0
    IN  connect(s1, "timer")

\* The continuation of the reconnect timer callback: when the connect() it
\* awaits rejects, the catch block calls reconnect().  It runs as a microtask
\* right after the handler that rejected the promise.
awaiters(before, s) ==
    IF \E i \in DOMAIN before.calls :
          /\ before.calls[i].caller = "timer"
          /\ before.calls[i].promise = "pending"
          /\ s.calls[i].promise = "rejected"
    THEN reconnect(s)
    ELSE s

\* ------------------------------------------------------------ actions
\* What became of the heartbeat sent last, after handler l left the fields s:
\* a heartbeat the handler sent is outstanding; a HEARTBEAT_ACK handled ends
\* that, and acknowledges it when it came on the heartbeat's own transport; a
\* HELLO handled re-arms the heartbeat timer, which ends it too.  Nothing is
\* kept once the transport is released or the heartbeat acknowledged.
noteHeartbeat(s, l) ==
    LET none == [sock |-> NoSocket, unacked |-> FALSE, outstanding |-> FALSE]
        b1 == IF l.op = "message" /\ l.frame = "HEARTBEAT_ACK"
              THEN [heartbeatSent EXCEPT !.outstanding = FALSE,
                                         !.unacked = IF l.sock = heartbeatSent.sock THEN FALSE ELSE @]
              ELSE IF l.op = "message" /\ l.frame = "HELLO"
              THEN [heartbeatSent EXCEPT !.outstanding = FALSE]
              ELSE heartbeatSent
        b2 == IF \E i \in DOMAIN s.sent : s.sent[i].op = "HEARTBEAT"
              THEN [sock |-> s.ws, unacked |-> TRUE, outstanding |-> TRUE]
              ELSE b1
    IN  IF b2.sock # s.ws \/ ~b2.unacked THEN none ELSE b2

Commit(s0, l, shutdown) ==
    \E s1 \in {awaiters(Cur, s0)} :
    \E r \in IF DrawDelay \in {s1.reconnectDelay, s1.jitterDelay} THEN Randoms ELSE {0} :
    \E s \in {[s1 EXCEPT !.reconnectDelay = IF @ = DrawDelay THEN reconnectDelayOf(r) ELSE @]} :
    /\ state' = s.state
    /\ sessionId' = s.sessionId
    /\ sequence' = s.sequence
    /\ ws' = s.ws
    /\ heartbeatInterval' = s.heartbeatInterval
    /\ lastHeartbeatAck' = s.lastHeartbeatAck
    /\ reconnectTimeout' = s.reconnectTimeout
    /\ liveHeartbeats' = s.liveHeartbeats
    /\ liveReconnects' = s.liveReconnects
    /\ readyState' = s.readyState
    /\ calls' = s.calls
    /\ jitter' = s.jitter
    /\ sent' = s.sent
    /\ emitted' = s.emitted
    /\ last' = [l EXCEPT !.from = state, !.res = s.res,
                         !.delay = IF s.jitterDelay = DrawDelay
                                   THEN invalidSessionDelayOf(r) ELSE NoDelay]
    /\ explicitShutdown' = shutdown
    /\ reconnectDelay' = s.reconnectDelay
    /\ messageHandlers' = s.messageHandlers
    /\ delivered' = s.delivered
    /\ UNCHANGED <<_events, invoked, gptClient>>
    /\ heartbeatSent' = noteHeartbeat(s, l)
    /\ normalClosure' =
          IF l.op \in {"connect", "reconnectTimer"} THEN FALSE
          ELSE IF l.op = "close" /\ l.code = 1000 /\ state = "CONNECTED" THEN TRUE
          ELSE normalClosure

Op(name) == [op |-> name, from |-> NULL, sock |-> 0, code |-> 0, call |-> 0,
             frame |-> NULL, d |-> NULL, res |-> NULL, delay |-> NoDelay,
             complete |-> TRUE, s |-> NoSeq]

\* connect() can open a transport only while the model has one left.
CanOpen(s) ==
    s.state = "DISCONNECTED" =>
        Len(s.calls) < MaxConnects

Init ==
    /\ state = "DISCONNECTED"
    /\ sessionId = NULL
    /\ sequence = NoSeq
    /\ ws = NoSocket
    /\ heartbeatInterval = NULL
    /\ lastHeartbeatAck = FALSE
    /\ reconnectTimeout = NULL
    /\ liveHeartbeats = 0
    /\ liveReconnects = 0
    /\ readyState = [i \in Sockets |-> "NONE"]
    /\ calls = <<>>
    /\ jitter = [resume |-> 0, identify |-> 0]
    /\ sent = <<>>
    /\ emitted = <<>>
    /\ last = Op("init")
    /\ explicitShutdown = FALSE
    /\ reconnectDelay = NoDelay
    /\ heartbeatSent = [sock |-> NoSocket, unacked |-> FALSE, outstanding |-> FALSE]
    /\ normalClosure = FALSE
    /\ messageHandlers = <<>>
    /\ delivered = <<>>
    /\ _events = [e \in EmitterEvents |-> <<>>]
    /\ invoked = <<>>
    /\ gptClient = [pc |-> "none", maxRetries |-> 0, retryDelay |-> 0, retries |-> 0,
                    results |-> <<>>, delays |-> <<>>, returned |-> <<>>]

\* The application calls connect().
UserConnect ==
    /\ CanOpen(Cur)
    /\ Commit(connect(Cur, "user"), Op("connect"), FALSE)

\* The application calls disconnect().
UserDisconnect ==
    /\ state \in ConnectionState
    /\ Commit(disconnect(Cur), Op("disconnect"), TRUE)

\* ws 'open' listener: logs only.
SocketOpen(k) ==
    /\ readyState[k] = "CONNECTING"
    /\ Commit([Cur EXCEPT !.readyState = [@ EXCEPT ![k] = "OPEN"]],
              [Op("open") EXCEPT !.sock = k], explicitShutdown)

\* READY and RESUMED are the frames that complete a handshake.
Handshake(f) == f.op = "DISPATCH" /\ f.t \in {"READY", "RESUMED"}

noteHandshake(s, f) ==
    IF Handshake(f)
    THEN [s EXCEPT !.calls = [i \in DOMAIN s.calls |-> [s.calls[i] EXCEPT !.gotReady = TRUE]]]
    ELSE s

\* ws 'message' listener.
SocketMessage(k, f) ==
    /\ readyState[k] \in {"OPEN", "CLOSING"}
    /\ f.op = "INVALID_SESSION" => jitter.resume + jitter.identify < MaxJitter
    /\ Commit(noteHandshake(messageListener(Cur, f), f),
              [Op("message") EXCEPT !.sock = k, !.d = f.d, !.complete = f.complete, !.s = f.s,
                                    !.frame = IF f.op = "DISPATCH" THEN f.t ELSE f.op],
              explicitShutdown)

\* ws 'error' listener.  ws moves the socket out of CONNECTING/OPEN before it
\* emits 'error', and emits 'close' afterwards.
SocketError(k) ==
    /\ readyState[k] \in {"CONNECTING", "OPEN", "CLOSING", "ABORTING"}
    /\ Commit(emitError([Cur EXCEPT !.readyState = [@ EXCEPT ![k] = "DEAD"]]),
              [Op("error") EXCEPT !.sock = k], explicitShutdown)

\* ws 'close' listener.
SocketClose(k, code) ==
    /\ \/ readyState[k] \in {"OPEN", "CLOSING"}
       \/ readyState[k] = "DEAD" /\ code = 1006
    /\ Commit(handleDisconnect([Cur EXCEPT !.readyState = [@ EXCEPT ![k] = "CLOSED"]], code),
              [Op("close") EXCEPT !.sock = k, !.code = code], explicitShutdown)

\* A tick of a heartbeat interval timer.
HeartbeatTick ==
    /\ liveHeartbeats > 0
    /\ Commit(sendHeartbeat(Cur), Op("heartbeat"), explicitShutdown)

\* The reconnect timer fires.
ReconnectTimerFires ==
    /\ liveReconnects > 0
    /\ reconnectTimeout = "armed"
    /\ LET s0 == [Cur EXCEPT !.state = IF sessionId # NULL /\ sequence # NoSeq
                                       THEN "RESUMING" ELSE @]
       IN  CanOpen(s0)
    /\ Commit(reconnectTimer(Cur), Op("reconnectTimer"), FALSE)

\* The connection timeout of call c fires.
ConnectionTimeoutFires(c) ==
    /\ c \in DOMAIN calls
    /\ calls[c].timeout = "armed"
    /\ Commit(connectionTimeout(Cur, c), [Op("connectionTimeout") EXCEPT !.call = c],
              explicitShutdown)

\* An invalid-session jitter timer fires.
JitterResumeFires ==
    /\ jitter.resume > 0
    /\ Commit(resume([Cur EXCEPT !.jitter.resume = @ - 1]), Op("jitterResume"),
              explicitShutdown)

JitterIdentifyFires ==
    /\ jitter.identify > 0
    /\ Commit(identify([Cur EXCEPT !.jitter.identify = @ - 1]), Op("jitterIdentify"),
              explicitShutdown)

Next ==
    \/ UserConnect
    \/ UserDisconnect
    \/ \E k \in Sockets : SocketOpen(k)
    \/ \E k \in Sockets, f \in Frames : SocketMessage(k, f)
    \/ \E k \in Sockets : SocketError(k)
    \/ \E k \in Sockets, code \in Codes : SocketClose(k, code)
    \/ HeartbeatTick
    \/ ReconnectTimerFires
    \/ \E c \in Sockets : ConnectionTimeoutFires(c)
    \/ JitterResumeFires
    \/ JitterIdentifyFires

Spec == Init /\ [][Next]_vars

\* Timers fire, the network opens a transport that is connecting, and the
\* server answers on the transport the manager holds.
ServerHello ==
    /\ ws # NoSocket
    /\ SocketMessage(ws, [op |-> "HELLO", s |-> NoSeq, t |-> NULL, d |-> NULL,
                          complete |-> TRUE])

ServerReady ==
    /\ ws # NoSocket
    /\ \E id \in SessionIds :
          SocketMessage(ws, [op |-> "DISPATCH", s |-> NoSeq, t |-> "READY", d |-> id,
                             complete |-> TRUE])

\* A second connection: the application may call connect() again after a
\* connection ended, so that the transport of the earlier connection and the
\* transport held exist side by side.  The server is kept to the handshake
\* (HELLO, and READY without a sequence number) and no heartbeat or
\* invalid-session timer runs: every behaviour of SpecRestart is a behaviour
\* of the manager, and it is used to exhibit behaviours, not to exclude them.
CanRestart(s) ==
    s.state = "DISCONNECTED" =>
        Len(s.calls) < MaxTransports

UserConnectAgain ==
    /\ CanRestart(Cur)
    /\ Commit(connect(Cur, "user"), Op("connect"), FALSE)

HandshakeFrames ==
    {f \in Frames : f.s = NoSeq /\ (f.op = "HELLO" \/ (f.op = "DISPATCH" /\ f.t = "READY"))}

NextRestart ==
    \/ UserConnectAgain
    \/ UserDisconnect
    \/ \E k \in Sockets : SocketOpen(k)
    \/ \E k \in Sockets, f \in HandshakeFrames : SocketMessage(k, f)
    \/ \E k \in Sockets : SocketError(k)
    \/ \E k \in Sockets, code \in Codes : SocketClose(k, code)
    \/ ReconnectTimerFires
    \/ \E c \in Sockets : ConnectionTimeoutFires(c)

SpecRestart == Init /\ [][NextRestart]_vars

\* Dispatch: the application registers and removes handlers while connected,
\* and the server sends dispatch frames and malformed data.  No timer runs
\* and the server sends no other opcode.
OnMessage(e, h) ==
    /\ e \in EventNames
    /\ Commit([onMessage(Cur, e, h) EXCEPT
                  !.res = IF mapHas(messageHandlers, e) THEN "replaced" ELSE "added"],
              [Op("onMessage") EXCEPT !.frame = e, !.d = h], explicitShutdown)

OffMessage(e) ==
    /\ e \in EventNames
    /\ Commit([offMessage(Cur, e) EXCEPT
                  !.res = IF mapHas(messageHandlers, e) THEN "removed" ELSE "absent"],
              [Op("offMessage") EXCEPT !.frame = e], explicitShutdown)

DispatchFrames == {f \in Frames : f.op = "DISPATCH"}

NextDispatch ==
    \/ UserConnect
    \/ UserDisconnect
    \/ \E k \in Sockets : SocketOpen(k)
    \/ \E k \in Sockets, f \in DispatchFrames \cup MalformedFrames : SocketMessage(k, f)
    \/ \E k \in Sockets, code \in Codes : SocketClose(k, code)
    \/ \E e \in EventNames, h \in Handlers : OnMessage(e, h)
    \/ \E e \in EventNames : OffMessage(e)

SpecDispatch == Init /\ [][NextDispatch]_vars

\* The emitter alone: listeners are registered and removed, and events are
\* emitted, while the manager is idle.
managerFields ==
    <<state, sessionId, sequence, ws, heartbeatInterval, lastHeartbeatAck,
      reconnectTimeout, liveHeartbeats, liveReconnects, readyState, calls,
      jitter, sent, emitted, explicitShutdown, reconnectDelay,
      heartbeatSent, normalClosure, messageHandlers, delivered>>

On(e, fn) ==
    /\ Len(_events[e]) < MaxListeners
    /\ _events' = on(_events, e, plainListener(fn))
    /\ invoked' = <<>>
    /\ last' = [Op("on") EXCEPT !.from = state, !.frame = e, !.d = fn]
    /\ UNCHANGED <<managerFields, gptClient>>

Once(e, fn) ==
    /\ Len(_events[e]) < MaxListeners
    /\ _events' = once(_events, e, fn)
    /\ invoked' = <<>>
    /\ last' = [Op("once") EXCEPT !.from = state, !.frame = e, !.d = fn]
    /\ UNCHANGED <<managerFields, gptClient>>

Off(e, fn) ==
    /\ _events' = off(_events, e, plainListener(fn))
    /\ invoked' = <<>>
    /\ last' = [Op("off") EXCEPT !.from = state, !.frame = e, !.d = fn]
    /\ UNCHANGED <<managerFields, gptClient>>

Emit(e) ==
    /\ _events' = emit(_events, e).events
    /\ invoked' = emit(_events, e).invoked
    /\ last' = [Op("emit") EXCEPT !.from = state, !.frame = e]
    /\ UNCHANGED <<managerFields, gptClient>>

NextEmitter ==
    \/ \E e \in EmitterEvents, fn \in ListenerFns : On(e, fn)
    \/ \E e \in EmitterEvents, fn \in ListenerFns : Once(e, fn)
    \/ \E e \in EmitterEvents, fn \in ListenerFns : Off(e, fn)
    \/ \E e \in EmitterEvents : Emit(e)

SpecEmitter == Init /\ [][NextEmitter]_vars

\* A GPTClient is constructed and complete() is called on it once; the API
\* answers every request, and the retry timer fires.
NewGPTClient(maxRetries, retryDelay) ==
    /\ gptClient.pc = "none"
    /\ gptClient' = [gptClient EXCEPT !.pc = "idle", !.maxRetries = maxRetries,
                                      !.retryDelay = retryDelay]
    /\ last' = [Op("new GPTClient") EXCEPT !.from = state]
    /\ UNCHANGED <<managerFields, _events, invoked>>

Complete ==
    /\ gptClient.pc = "idle"
    /\ gptClient' = complete(gptClient)
    /\ last' = [Op("complete") EXCEPT !.from = state]
    /\ UNCHANGED <<managerFields, _events, invoked>>

ApiResponds(response) ==
    /\ gptClient.pc = "request"
    /\ gptClient' = apiResponds(gptClient, response)
    /\ last' = [Op("response") EXCEPT !.from = state]
    /\ UNCHANGED <<managerFields, _events, invoked>>

RetryTimerFires ==
    /\ gptClient.pc = "waiting"
    /\ gptClient' = whileRetries(gptClient)
    /\ last' = [Op("retryTimer") EXCEPT !.from = state]
    /\ UNCHANGED <<managerFields, _events, invoked>>

NextComplete ==
    \/ \E maxRetries \in 0..MaxRetries, retryDelay \in RetryDelays :
          NewGPTClient(maxRetries, retryDelay)
    \/ Complete
    \/ \E response \in ApiResponses : ApiResponds(response)
    \/ RetryTimerFires

SpecComplete == Init /\ [][NextComplete]_vars

FairSpec ==
    /\ Spec
    /\ WF_vars(ReconnectTimerFires)
    /\ WF_vars(\E k \in Sockets : SocketOpen(k))
    /\ WF_vars(ServerHello)
    /\ WF_vars(ServerReady)

\* ------------------------------------------------------------ claims
NoOpenTransport ==
    /\ ws = NoSocket
    /\ \A k \in Sockets : readyState[k] \notin {"CONNECTING", "OPEN"}

NoHeartbeatOrReconnectTimer ==
    /\ heartbeatInterval = NULL /\ liveHeartbeats = 0
    /\ reconnectTimeout = NULL /\ liveReconnects = 0

\* C1: when disconnect() returns, whatever the state it was called in, state
\* is DISCONNECTED, neither the heartbeat timer nor the reconnect timer is
\* active, and the manager holds no transport that is open or opening.
C1_DisconnectReleasesEverything ==
    last.op = "disconnect" =>
        /\ state = "DISCONNECTED"
        /\ NoHeartbeatOrReconnectTimer
        /\ NoOpenTransport

\* disconnect() was called while Connected, and closed the open transport.
C1_Witness ==
    /\ last.op = "disconnect"
    /\ last.from = "CONNECTED"
    /\ \E k \in Sockets : readyState[k] = "CLOSING"

\* C2: once disconnect() was called and connect() not since, state stays
\* DISCONNECTED and no reconnect timer is armed, whatever callbacks of the
\* closed transport arrive.
C2_ShutdownIsTerminal ==
    explicitShutdown => (state = "DISCONNECTED" /\ liveReconnects = 0)

\* C3: connect() called while CONNECTING or CONNECTED returns false and
\* changes no field, no timer and no transport.
C3_ConnectWhileBusyIsNoOp ==
    [][(last'.op = "connect" /\ state \in {"CONNECTING", "CONNECTED"}) =>
          /\ last'.res = "false"
          /\ UNCHANGED <<state, sessionId, sequence, ws, heartbeatInterval,
                         lastHeartbeatAck, reconnectTimeout, liveHeartbeats,
                         liveReconnects, readyState, calls, jitter>>]_vars

\* connect() was called while CONNECTED and returned false.
C3_Witness ==
    /\ last.op = "connect"
    /\ last.from = "CONNECTED"
    /\ last.res = "false"
    /\ state = "CONNECTED"

\* C4: whenever an established connection fails (abnormal close, RECONNECT,
\* unacknowledged heartbeat) and a reconnect is scheduled, the manager is
\* eventually CONNECTED again (or was shut down), given that timers fire,
\* transports open and the server answers HELLO and READY.
C4_SelfHealing ==
    (last.from = "CONNECTED" /\ state = "RECONNECTING" /\ liveReconnects > 0)
        ~> (state \in {"CONNECTED", "DISCONNECTED"})

\* C5: when the reconnect timer fires in RECONNECTING, a new transport is
\* opened and state becomes CONNECTING.
C5_ReconnectTimerReopens ==
    (last.op = "reconnectTimer" /\ last.from = "RECONNECTING") =>
        (state = "CONNECTING" /\ ws # NoSocket)

C7_TimeoutLeavesDisconnected ==
    (last.op = "connectionTimeout" /\ last.from # "CONNECTED") =>
        state = "DISCONNECTED"

\* C8: when the transport of a pending connect() call reports an error before
\* READY or RESUMED was received, the call is rejected with the transport
\* error, its connection timeout is cancelled and the transport is closed.
C8_TransportErrorRejectsConnect ==
    [][\A c \in DOMAIN calls :
          (/\ last'.op = "error" /\ last'.sock = c
           /\ calls[c].promise = "pending" /\ ~calls[c].gotReady) =>
              /\ calls'[c].promise = "rejected"
              /\ calls'[c].reason = "TransportError"
              /\ calls'[c].timeout = "cleared"
              /\ ws' = NoSocket
              /\ readyState'[c] \notin {"CONNECTING", "OPEN"}]_vars

\* The transport failed during the handshake and connect() was rejected.
C8_Witness ==
    /\ last.op = "error"
    /\ last.from = "CONNECTING"
    /\ \E c \in DOMAIN calls :
          /\ last.sock = c
          /\ ~calls[c].gotReady
          /\ calls[c].reason = "TransportError"
          /\ calls[c].timeout = "cleared"

\* C9: at the moment a connect() call resolves with true, state is CONNECTED
\* and sessionId is set.
C9_ResolvesOnlyWhenConnected ==
    [][\A c \in DOMAIN calls :
          (calls[c].promise = "pending" /\ calls'[c].promise = "resolved") =>
              (state' = "CONNECTED" /\ sessionId' \in SessionIds)]_vars

\* A connect() call was resolved by the READY that just arrived.
C9_Witness ==
    /\ last.op = "message"
    /\ last.frame = "READY"
    /\ last.from = "CONNECTING"
    /\ \E c \in DOMAIN calls : calls[c].promise = "resolved"
    /\ emitted = <<"connected", "message">>

\* C10: every accepted connect() call settles: once its 30 s timeout has
\* fired, the call is resolved or rejected, never still pending.
C10_SettledOnceTimeoutFired ==
    \A c \in DOMAIN calls : calls[c].timeout = "fired" => calls[c].promise # "pending"

\* C11: within one session the stored sequence never decreases: a frame on
\* the current transport whose s is lower than the stored sequence leaves the
\* stored value where it was.
C11_SequenceNeverDecreases ==
    [][(/\ last'.op = "message"
        /\ last'.sock = ws
        /\ sessionId # NULL /\ sessionId' = sessionId
        /\ sequence # NoSeq /\ sequence' # NoSeq) =>
          sequence' >= sequence]_vars

\* C12: a RESUME frame is sent only when sessionId and sequence are both
\* stored, and carries exactly the stored values; a resume attempted on an
\* open transport with either of them missing sends one IDENTIFY instead.
C12_ResumeCarriesStoredSession ==
    /\ \A i \in DOMAIN sent :
          sent[i].op = "RESUME" =>
              /\ sessionId # NULL /\ sequence # NoSeq
              /\ sent[i].session_id = sessionId
              /\ sent[i].seq = sequence
    /\ (last.op = "jitterResume" /\ wsIsOpen(Cur)
            /\ (sessionId = NULL \/ sequence = NoSeq)) =>
          (Len(sent) = 1 /\ sent[1].op = "IDENTIFY")

\* A resume on an open transport with a stored session sent RESUME.
C12_Witness ==
    /\ last.op = "jitterResume"
    /\ Len(sent) = 1
    /\ sent[1].op = "RESUME"
    /\ sent[1].session_id = "abc"
    /\ sent[1].seq \in Seqs

\* C13: every HELLO received on the open transport the manager holds is
\* answered with exactly one authentication frame: RESUME when sessionId and
\* sequence are both stored, IDENTIFY when not.
C13_HelloAnsweredByResumeOrIdentify ==
    (last.op = "message" /\ last.frame = "HELLO" /\ ws = last.sock /\ wsIsOpen(Cur)) =>
        /\ Len(sent) = 1
        /\ (sessionId # NULL /\ sequence # NoSeq) => sent[1].op = "RESUME"
        /\ (sessionId = NULL \/ sequence = NoSeq) => sent[1].op = "IDENTIFY"

\* C14: in every state at most one heartbeat timer and at most one reconnect
\* timer are active, each the one its handle refers to; after a HELLO was
\* handled exactly one heartbeat timer is active and the acknowledgment flag
\* is true; when a reconnect is scheduled no heartbeat timer stays active, so
\* no tick of a timer of the previous connection can run.
C14_OneTimerOfEachKind ==
    /\ liveHeartbeats <= 1
    /\ liveReconnects <= 1
    /\ (liveHeartbeats = 1) <=> (heartbeatInterval # NULL)
    /\ (liveReconnects = 1) <=> (reconnectTimeout = "armed")
    /\ (last.op = "message" /\ last.frame = "HELLO") =>
          (liveHeartbeats = 1 /\ lastHeartbeatAck)
    /\ (state = "RECONNECTING" /\ last.from # "RECONNECTING") =>
          (liveHeartbeats = 0 /\ liveReconnects = 1)

\* A HELLO arrived on a connection whose heartbeat timer was already running
\* and had a heartbeat outstanding: the timer was replaced, not doubled.
C14_Witness ==
    /\ last.op = "message"
    /\ last.frame = "HELLO"
    /\ last.from = "CONNECTED"
    /\ liveHeartbeats = 1
    /\ lastHeartbeatAck

\* A heartbeat tick with a heartbeat outstanding scheduled a reconnect.
C14_WitnessReconnect ==
    /\ last.op = "heartbeat"
    /\ state = "RECONNECTING"
    /\ liveHeartbeats = 0
    /\ liveReconnects = 1

C15_WitnessLaterTick ==
    /\ last.op = "heartbeat"
    /\ last.from = "RECONNECTING"
    /\ reconnectTimeout = "armed"

C17_FreshConnectHandshake ==
    /\ (/\ last.op = "message" /\ last.frame = "HELLO"
        /\ last.from = "CONNECTING" /\ sessionId = NULL
        /\ ws = last.sock /\ wsIsOpen(Cur)) =>
          sent = <<[op |-> "IDENTIFY", sock |-> ws, session_id |-> NULL, seq |-> NoSeq]>>
    /\ (last.op = "message" /\ last.frame = "READY") =>
          /\ state = "CONNECTED"
          /\ sessionId = last.d
          /\ \A c \in DOMAIN calls : calls[c].timeout # "armed"
          /\ emitted = <<"connected", "message">>

\* READY with session_id "abc" arrived while CONNECTING on the transport held;
\* the connection timeout of the connect() call was cancelled.
C17_Witness ==
    /\ last.op = "message" /\ last.frame = "READY" /\ last.d = "abc"
    /\ last.from = "CONNECTING"
    /\ ws = last.sock /\ wsIsOpen(Cur)
    /\ sessionId = "abc"
    /\ \E c \in DOMAIN calls : calls[c].timeout = "cleared" /\ calls[c].promise = "resolved"

\* The HELLO of a fresh connection was answered with IDENTIFY.
C17_WitnessHello ==
    /\ last.op = "message" /\ last.frame = "HELLO"
    /\ last.from = "CONNECTING" /\ sessionId = NULL
    /\ Len(sent) = 1 /\ sent[1].op = "IDENTIFY"

C19_NormalClosureEndsSession ==
    /\ (last.op = "close" /\ last.code = 1000 /\ last.from = "CONNECTED") =>
          /\ state = "DISCONNECTED"
          /\ emitted = <<"disconnected">>
          /\ reconnectTimeout = NULL /\ liveReconnects = 0
    /\ normalClosure => (reconnectTimeout # "armed" /\ liveReconnects = 0)

\* C20: a close with a code other than 1000 while CONNECTED leaves state
\* RECONNECTING and exactly one reconnect timer armed, with a delay of at
\* least 1000 ms and at most 6000 ms.
C20_AbnormalClosureSchedulesReconnect ==
    (last.op = "close" /\ last.code # 1000 /\ last.from = "CONNECTED") =>
        /\ state = "RECONNECTING"
        /\ reconnectTimeout = "armed" /\ liveReconnects = 1
        /\ reconnectDelay >= 1000 /\ reconnectDelay <= 6000

\* The transport held closed with code 4000 while CONNECTED; the reconnect
\* timer was armed with the longest delay Math.random() can give.
C20_Witness ==
    /\ last.op = "close" /\ last.code = 4000 /\ last.from = "CONNECTED"
    /\ state = "RECONNECTING"
    /\ reconnectTimeout = "armed"
    /\ reconnectDelay = reconnectDelayOf(999)
    /\ reconnectDelay > 5000

\* C21: a RECONNECT frame received while CONNECTED leaves state RECONNECTING,
\* no transport held or open, no heartbeat timer and the reconnect timer
\* armed; and the timer is still armed after the next event, unless that
\* event is the timer firing or a call of disconnect().
C21_ServerReconnectSchedules ==
    [][/\ (last'.op = "message" /\ last'.frame = "RECONNECT" /\ state = "CONNECTED") =>
             /\ state' = "RECONNECTING"
             /\ ws' = NoSocket
             /\ \A k \in Sockets : readyState'[k] \notin {"CONNECTING", "OPEN"}
             /\ liveHeartbeats' = 0
             /\ reconnectTimeout' = "armed" /\ liveReconnects' = 1
       /\ (/\ last.op = "message" /\ last.frame = "RECONNECT" /\ last.from = "CONNECTED"
           /\ last'.op \notin {"reconnectTimer", "disconnect"}) =>
             reconnectTimeout' = "armed"]_vars

\* C22: INVALID_SESSION with resumable = true received while CONNECTED changes
\* neither the state nor the stored session, sends nothing at once and arms a
\* jitter timer of 2 to 5 seconds; when that timer fires while CONNECTED on
\* the open transport with sessionId and sequence stored, the one frame sent
\* is a RESUME that carries them.
C22_ResumableInvalidSession ==
    [][/\ (/\ last'.op = "message" /\ last'.frame = "INVALID_SESSION" /\ last'.d = "true"
           /\ state = "CONNECTED") =>
             /\ state' = "CONNECTED"
             /\ sessionId' = sessionId /\ sequence' = sequence
             /\ sent' = <<>>
             /\ jitter' = [jitter EXCEPT !.resume = @ + 1]
             /\ last'.delay >= 2000 /\ last'.delay <= 5000
       /\ (/\ last'.op = "jitterResume" /\ state = "CONNECTED" /\ wsIsOpen(Cur)
           /\ sessionId # NULL /\ sequence # NoSeq) =>
             /\ sent' = <<[op |-> "RESUME", sock |-> ws,
                           session_id |-> sessionId, seq |-> sequence]>>
             /\ state' = "CONNECTED"
             /\ sessionId' = sessionId /\ sequence' = sequence]_vars

\* The jitter timer armed by a resumable INVALID_SESSION fired while
\* CONNECTED and the RESUME went out with the stored session.
C22_Witness ==
    /\ last.op = "jitterResume"
    /\ last.from = "CONNECTED" /\ state = "CONNECTED"
    /\ sent = <<[op |-> "RESUME", sock |-> ws, session_id |-> "abc", seq |-> sequence]>>

\* A resumable INVALID_SESSION arrived while CONNECTED with a session stored.
C22_WitnessArmed ==
    /\ last.op = "message" /\ last.frame = "INVALID_SESSION" /\ last.d = "true"
    /\ last.from = "CONNECTED" /\ sessionId = "abc" /\ sequence # NoSeq
    /\ jitter.resume = 1
    /\ last.delay > 4000

\* C23: INVALID_SESSION with resumable = false clears sessionId and sequence
\* in the handler itself, before anything is sent, leaves the state as it was
\* and arms a jitter timer of 2 to 5 seconds; when that timer fires on the
\* open transport, the one frame sent is an IDENTIFY.
C23_NonResumableInvalidSession ==
    [][/\ (last'.op = "message" /\ last'.frame = "INVALID_SESSION" /\ last'.d = "false") =>
             /\ sessionId' = NULL /\ sequence' = NoSeq
             /\ state' = state
             /\ sent' = <<>>
             /\ jitter' = [jitter EXCEPT !.identify = @ + 1]
             /\ last'.delay >= 2000 /\ last'.delay <= 5000
       /\ (last'.op = "jitterIdentify" /\ wsIsOpen(Cur)) =>
             /\ sent' = <<[op |-> "IDENTIFY", sock |-> ws,
                           session_id |-> NULL, seq |-> NoSeq]>>
             /\ state' = state]_vars

\* A non-resumable INVALID_SESSION arrived while a session was stored, and
\* the session was cleared.
C23_Witness ==
    /\ last.op = "message" /\ last.frame = "INVALID_SESSION" /\ last.d = "false"
    /\ last.from = "CONNECTED"
    /\ \E c \in DOMAIN calls : calls[c].promise = "resolved"
    /\ sessionId = NULL /\ sequence = NoSeq
    /\ jitter.identify = 1

\* The jitter timer of a non-resumable INVALID_SESSION fired and IDENTIFY
\* went out.
C23_WitnessFired ==
    /\ last.op = "jitterIdentify"
    /\ last.from = "CONNECTED"
    /\ Len(sent) = 1 /\ sent[1].op = "IDENTIFY"
    /\ sessionId = NULL

\* C24: a timer that was armed before disconnect() was called does nothing
\* when it fires after disconnect() returned: the connection timeout of a
\* connect() made before the disconnect(), and any timer firing right after
\* disconnect(), leave the state, the transports and the promises as they
\* are and send nothing.
C24_DisconnectCancelsAllTimers ==
    [][((explicitShutdown /\ last'.op = "connectionTimeout")
        \/ (last.op = "disconnect"
              /\ last'.op \in {"heartbeat", "reconnectTimer", "jitterResume", "jitterIdentify"})) =>
          /\ state' = state
          /\ ws' = ws
          /\ readyState' = readyState
          /\ sent' = <<>>
          /\ \A c \in DOMAIN calls : calls'[c].promise = calls[c].promise]_vars

\* C25: a dispatch frame is handled in this order: the sequence is updated,
\* then READY and RESUMED are handled internally, then the registered handler
\* is called and after it the generic "message" listeners.  So whoever is
\* called for the event sees the frame's sequence number; for READY and
\* RESUMED sees the state CONNECTED; and for READY sees the session id of the
\* frame.
C25_DispatchOrder ==
    (last.op = "message" /\ last.frame \in {"READY", "RESUMED", "MESSAGE_CREATE"}) =>
        /\ \A i \in DOMAIN delivered :
              /\ delivered[i].t = last.frame
              /\ last.s # NoSeq => delivered[i].sequence = last.s
              /\ delivered[i].sequence = sequence
              /\ last.frame \in {"READY", "RESUMED"} => delivered[i].state = "CONNECTED"
              /\ last.frame = "READY" => delivered[i].sessionId = last.d
        /\ \A i, j \in DOMAIN delivered :
              (delivered[i].to = "handler" /\ delivered[j].to = "listeners") => i < j

\* A READY with a new sequence number reached the registered handler and then
\* the listeners, and the connection was not CONNECTED before it.
C25_Witness ==
    /\ last.op = "message" /\ last.frame = "READY" /\ last.from = "CONNECTING"
    /\ last.s # NoSeq
    /\ Len(delivered) = 2
    /\ delivered[1].to = "handler" /\ delivered[2].to = "listeners"

\* A RESUMED reached the listeners on a connection that was not CONNECTED.
C25_WitnessResumed ==
    /\ last.op = "message" /\ last.frame = "RESUMED" /\ last.from = "CONNECTING"
    /\ Len(delivered) = 1 /\ delivered[1].to = "listeners"

\* C26: a registered handler that throws does not stop delivery: the event
\* it was called for still reaches the generic "message" listeners.
C26_ThrowingHandlerStillDelivers ==
    (/\ last.op = "message"
     /\ \E i \in DOMAIN delivered :
           delivered[i].to = "handler" /\ delivered[i].handler = "hThrows") =>
        \E j \in DOMAIN delivered : delivered[j].to = "listeners"

\* C27: the registry holds at most one handler per event name.  onMessage
\* leaves its handler as the only one of the name, and a dispatch calls the
\* handler registered last and no other; offMessage leaves the name without
\* a handler whether or not it had one; both leave the handlers of every
\* other name as they were.
C27_OneHandlerPerEvent ==
    [][/\ \A i, j \in DOMAIN messageHandlers' :
             messageHandlers'[i].key = messageHandlers'[j].key => i = j
       /\ last'.op = "onMessage" =>
             /\ mapHas(messageHandlers', last'.frame)
             /\ mapGet(messageHandlers', last'.frame) = last'.d
       /\ last'.op = "offMessage" =>
             /\ ~mapHas(messageHandlers', last'.frame)
             /\ last'.res = "absent" => messageHandlers' = messageHandlers
       /\ last'.op \in {"onMessage", "offMessage"} =>
             \A e \in EventNames \ {last'.frame} :
                 /\ mapHas(messageHandlers', e) <=> mapHas(messageHandlers, e)
                 /\ mapHas(messageHandlers, e) =>
                       mapGet(messageHandlers', e) = mapGet(messageHandlers, e)
       /\ last'.op \notin {"onMessage", "offMessage"} => messageHandlers' = messageHandlers
       /\ last'.op = "message" =>
             \A i \in DOMAIN delivered' :
                 delivered'[i].to = "handler" =>
                     /\ i = 1
                     /\ mapHas(messageHandlers, delivered'[i].t)
                     /\ delivered'[i].handler = mapGet(messageHandlers, delivered'[i].t)]_vars

\* onMessage replaced the handler of a name while another name has one.
C27_Witness ==
    /\ last.op = "onMessage" /\ last.res = "replaced"
    /\ Len(messageHandlers) = 2

\* offMessage for a name without a handler, while another name has one.
C27_WitnessRemoval ==
    /\ last.op = "offMessage" /\ last.res = "absent"
    /\ Len(messageHandlers) = 1

\* A dispatch called the handler of its event while another name has one.
C27_WitnessDispatch ==
    /\ last.op = "message" /\ Len(messageHandlers) = 2
    /\ Len(delivered) = 2 /\ delivered[1].to = "handler"

\* C28: a malformed inbound frame is dropped: it leaves the state, the
\* session id, the sequence, the timers and the transport as they were, sends
\* nothing and fires no notification.
C28_MalformedFrameDropped ==
    [][(last'.op = "message" /\ ~last'.complete) =>
          /\ state' = state
          /\ sessionId' = sessionId
          /\ sequence' = sequence
          /\ heartbeatInterval' = heartbeatInterval
          /\ reconnectTimeout' = reconnectTimeout
          /\ jitter' = jitter
          /\ ws' = ws
          /\ readyState' = readyState
          /\ calls' = calls
          /\ sent' = <<>>
          /\ emitted' = <<>>
          /\ delivered' = <<>>]_vars

\* C29: every change of state is a transition of the state machine:
\* DISCONNECTED to CONNECTING by connect(); CONNECTING to CONNECTED by READY or
\* RESUMED; CONNECTING to DISCONNECTED by the connection timeout; CONNECTED to
\* DISCONNECTED by close code 1000; CONNECTED to RECONNECTING by another close
\* code, RECONNECT or a missed heartbeat; RECONNECTING or RESUMING to
\* CONNECTING (marked RESUMING on the way when a session is stored) by the
\* reconnect timer; anything to DISCONNECTED by disconnect().
C29_OnlyTableTransitions ==
    [][state' # state =>
          \/ last'.op = "disconnect" /\ state' = "DISCONNECTED"
          \/ state = "DISCONNECTED" /\ state' = "CONNECTING" /\ last'.op = "connect"
          \/ /\ state = "CONNECTING" /\ state' = "CONNECTED"
             /\ last'.op = "message" /\ last'.frame \in {"READY", "RESUMED"}
          \/ state = "CONNECTING" /\ state' = "DISCONNECTED" /\ last'.op = "connectionTimeout"
          \/ /\ state = "CONNECTED" /\ state' = "DISCONNECTED"
             /\ last'.op = "close" /\ last'.code = 1000
          \/ /\ state = "CONNECTED" /\ state' = "RECONNECTING"
             /\ \/ last'.op = "close" /\ last'.code # 1000
                \/ last'.op = "message" /\ last'.frame = "RECONNECT"
                \/ last'.op = "heartbeat"
          \/ /\ state \in {"RECONNECTING", "RESUMING"} /\ state' \in {"CONNECTING", "RESUMING"}
             /\ last'.op = "reconnectTimer"]_vars

\* C30: the session id and the sequence persist across recovery.  The session
\* id changes only to the id of a READY frame or to null by INVALID_SESSION
\* with d = false; the sequence changes only to the s of a frame or to null
\* by the same INVALID_SESSION.  A transport close or error, the scheduling and
\* the firing of the reconnect timer, a heartbeat tick, the connection
\* timeout, connect() and disconnect() leave both as they were.
C30_SessionPersists ==
    [][/\ sessionId' # sessionId =>
             /\ last'.op = "message"
             /\ \/ last'.frame = "READY" /\ sessionId' = last'.d
                \/ last'.frame = "INVALID_SESSION" /\ last'.d = "false" /\ sessionId' = NULL
       /\ sequence' # sequence =>
             /\ last'.op = "message"
             /\ \/ last'.s # NoSeq /\ sequence' = last'.s
                \/ last'.frame = "INVALID_SESSION" /\ last'.d = "false" /\ sequence' = NoSeq
       /\ last'.op \in {"close", "error", "reconnectTimer", "heartbeat", "connectionTimeout",
                        "connect", "disconnect", "open", "jitterResume", "jitterIdentify"} =>
             sessionId' = sessionId /\ sequence' = sequence]_vars

\* An abnormal close scheduled a reconnect with the session stored.
C30_Witness ==
    /\ last.op = "close" /\ last.code # 1000 /\ last.from = "CONNECTED"
    /\ state = "RECONNECTING" /\ reconnectTimeout = "armed"
    /\ sessionId # NULL /\ sequence # NoSeq

\* The reconnect timer fired with the session stored.
C30_WitnessTimer ==
    /\ last.op = "reconnectTimer"
    /\ sessionId # NULL /\ sequence # NoSeq

\* A missed heartbeat scheduled a reconnect with the session stored.
C30_WitnessHeartbeat ==
    /\ last.op = "heartbeat" /\ last.from = "CONNECTED" /\ state = "RECONNECTING"
    /\ sessionId # NULL /\ sequence # NoSeq

\* INVALID_SESSION with d = false cleared a stored session.
C30_WitnessCleared ==
    /\ last.op = "message" /\ last.frame = "INVALID_SESSION" /\ last.d = "false"
    /\ sessionId = NULL /\ sequence = NoSeq /\ state = "CONNECTED"

\* C31, as stated: the stored sequence changes only when a frame with a
\* non-null s is processed, and then to that s; a frame whose s is null, of
\* any opcode, leaves it as it was.
C31_SequenceOnlyFromFrames ==
    [][sequence' # sequence =>
          last'.op = "message" /\ last'.s # NoSeq /\ sequence' = last'.s]_vars

\* C31, amended: the stored sequence changes only when a frame with a non-null
\* s is processed, and then to that s, or to null when INVALID_SESSION with
\* d = false is processed.  A frame of any other kind whose s is null, a timer
\* firing, a heartbeat tick, connect() and disconnect() leave it as it was.
C31_SequenceFromFramesOrInvalidSession ==
    [][/\ sequence' # sequence =>
             /\ last'.op = "message"
             /\ IF last'.s # NoSeq
                THEN sequence' = last'.s
                ELSE last'.frame = "INVALID_SESSION" /\ last'.d = "false" /\ sequence' = NoSeq
       /\ (/\ last'.op = "message" /\ last'.s = NoSeq
           /\ ~(last'.frame = "INVALID_SESSION" /\ last'.d = "false")) => sequence' = sequence
       /\ last'.op \in {"heartbeat", "reconnectTimer", "connectionTimeout", "jitterResume",
                        "jitterIdentify", "connect", "disconnect"} => sequence' = sequence]_vars

\* A frame without s was processed while a sequence was stored.
C31_Witness ==
    /\ last.op = "message" /\ last.frame = "MESSAGE_CREATE" /\ last.s = NoSeq
    /\ sequence # NoSeq

\* A frame with s was processed and its s stored over another one.
C31_WitnessStored ==
    /\ last.op = "message" /\ last.s = 1 /\ sequence = 1
    /\ last.frame = "MESSAGE_CREATE" /\ last.from = "CONNECTED"

\* A heartbeat was sent while a sequence was stored.
C31_WitnessHeartbeat ==
    /\ last.op = "heartbeat" /\ sent # <<>> /\ sequence # NoSeq

\* C32: a heartbeat tick does exactly one of two things.  When the heartbeat
\* before it was not acknowledged it triggers reconnect: state becomes
\* RECONNECTING and nothing is sent.  Otherwise it sends one frame, a
\* HEARTBEAT carrying the stored sequence, and sets lastHeartbeatAck to false.
\* A HEARTBEAT_ACK sets lastHeartbeatAck to true.
C32_TickReconnectsOrSends ==
    [][/\ last'.op = "heartbeat" =>
             IF ~lastHeartbeatAck
             THEN state' = "RECONNECTING" /\ sent' = <<>>
             ELSE /\ sent' = <<[op |-> "HEARTBEAT", sock |-> ws, session_id |-> NULL,
                                seq |-> sequence]>>
                  /\ lastHeartbeatAck' = FALSE
       /\ (last'.op = "message" /\ last'.frame = "HEARTBEAT_ACK") =>
             lastHeartbeatAck' = TRUE]_vars

\* C33: emit() calls the listeners of the event in the order of their
\* registration, each once, whether or not one of them throws: on() and
\* once() add their listener behind those registered, and emit() calls the
\* functions of the array it finds from the first to the last.  A listener
\* added by once() is gone after the emit that called it; the others stay.
C33_ListenersInRegistrationOrder ==
    [][/\ last'.op \in {"on", "once"} =>
             /\ Len(_events'[last'.frame]) = Len(_events[last'.frame]) + 1
             /\ SubSeq(_events'[last'.frame], 1, Len(_events[last'.frame])) = _events[last'.frame]
             /\ _events'[last'.frame][Len(_events'[last'.frame])].fn = last'.d
       /\ last'.op = "emit" =>
             /\ invoked' = [i \in DOMAIN _events[last'.frame] |-> _events[last'.frame][i].fn]
             /\ _events'[last'.frame] = SelectSeq(_events[last'.frame], LAMBDA l : ~l.once)
       /\ last'.op \in {"on", "once", "off", "emit"} =>
             \A e \in EmitterEvents \ {last'.frame} : _events'[e] = _events[e]]_vars

\* An emit called a listener that throws and then the listener behind it.
C33_Witness ==
    /\ last.op = "emit"
    /\ invoked = <<"lThrows", "l1">>

\* An emit called a listener added by once() and then one added by on().
C33_WitnessOnce ==
    /\ last.op = "emit"
    /\ Len(invoked) = 2 /\ Len(_events[last.frame]) = 1
    /\ _events[last.frame][1].fn = invoked[2]

\* C34: while the manager holds a transport, a close, error or message event
\* of another transport, one it dropped before, does not close the transport
\* held, does not cancel its timers and does not change state, sessionId or
\* sequence.
C34_AbandonedTransportIsInert ==
    [][(/\ last'.op \in {"close", "error", "message"}
        /\ ws # NoSocket
        /\ last'.sock # ws) =>
          /\ ws' = ws
          /\ readyState'[ws] = readyState[ws]
          /\ heartbeatInterval' = heartbeatInterval
          /\ reconnectTimeout' = reconnectTimeout
          /\ \A c \in DOMAIN calls : calls'[c].timeout = calls[c].timeout
          /\ state' = state
          /\ sessionId' = sessionId
          /\ sequence' = sequence]_vars

\* C35: whenever state is CONNECTED the manager holds a transport, and it is
\* not one the manager closed.
C35_ConnectedHoldsTransport ==
    state = "CONNECTED" =>
        /\ ws # NoSocket
        /\ readyState[ws] \notin {"CLOSING", "ABORTING"}

\* C36: recovery never stalls: whenever state is RECONNECTING or RESUMING, a
\* reconnect timer is pending or the manager holds a transport that is
\* opening or open.
C36_RecoveryNeverStalls ==
    state \in {"RECONNECTING", "RESUMING"} =>
        \/ reconnectTimeout = "armed" /\ liveReconnects > 0
        \/ ws # NoSocket /\ readyState[ws] \in {"CONNECTING", "OPEN"}

\* C37: once a connect() call has settled, neither its onConnected listener
\* nor its onError listener is registered any more.
C37_ConnectListenersAreTemporary ==
    \A c \in DOMAIN calls :
        calls[c].promise # "pending" => ~calls[c].onConnected /\ ~calls[c].onError

\* C38: complete() retries with a bound and terminates.  It makes at most
\* maxRetries + 1 requests.  It returns the trimmed content of the first
\* request answered with content that is not empty, every request before it
\* having failed.  Before its k-th retry it has waited retryDelay * 2^(k-1)
\* ms: retryDelay first, and twice the wait before for each retry after.  It
\* throws after exactly maxRetries + 1 failures, having waited maxRetries
\* times.  Every step of a running call ends it or brings it nearer to the
\* bound on its requests.
C38_CompleteRetriesBounded ==
    [][LET g == gptClient'
           C38_Failed(response) == ~response.ok \/ trim(response.content) = <<>>
           C38_Left(c) ==
               2 * (c.maxRetries + 1 - Len(c.results)) + (IF c.pc = "waiting" THEN 1 ELSE 0)
       IN
       /\ Len(g.results) <= g.maxRetries + 1
       /\ \A k \in DOMAIN g.delays :
             g.delays[k] = IF k = 1 THEN g.retryDelay ELSE 2 * g.delays[k - 1]
       /\ g.pc = "returned" =>
             /\ g.results # <<>>
             /\ ~C38_Failed(g.results[Len(g.results)])
             /\ g.returned = trim(g.results[Len(g.results)].content)
             /\ \A k \in 1..(Len(g.results) - 1) : C38_Failed(g.results[k])
             /\ Len(g.delays) = Len(g.results) - 1
       /\ g.pc = "thrown" =>
             /\ Len(g.results) = g.maxRetries + 1
             /\ \A k \in DOMAIN g.results : C38_Failed(g.results[k])
             /\ Len(g.delays) = g.maxRetries
       /\ g.pc = "waiting" => Len(g.delays) = Len(g.results)
       /\ g.pc = "request" => Len(g.delays) = Len(g.results)
       /\ gptClient.pc \in {"request", "waiting"} =>
             /\ C38_Left(g) >= 0
             /\ g.pc \in {"returned", "thrown"} \/ C38_Left(g) < C38_Left(gptClient)]_vars

\* complete() returned the content of its third request after two failures.
C38_Witness ==
    /\ gptClient.pc = "returned" /\ gptClient.maxRetries = 3
    /\ Len(gptClient.results) = 3 /\ Len(gptClient.delays) = 2
    /\ gptClient.returned = <<"a">>
    /\ gptClient.results[3].content = <<" ", "a", " ">>

\* complete() threw after maxRetries + 1 = 4 failures.
C38_WitnessThrown ==
    /\ gptClient.pc = "thrown" /\ gptClient.maxRetries = 3
    /\ Len(gptClient.results) = 4
    /\ gptClient.delays = <<1000, 2000, 4000>>

TypeOK ==
    /\ state \in ConnectionState
    /\ sessionId \in SessionIds \cup {NULL}
    /\ sequence \in SeqOrNull
    /\ ws \in Sockets \cup {NoSocket}
    /\ heartbeatInterval \in {NULL, "timer"}
    /\ lastHeartbeatAck \in BOOLEAN
    /\ reconnectTimeout \in {NULL, "armed", "fired"}
    /\ liveHeartbeats \in 0..2
    /\ liveReconnects \in 0..2
    /\ readyState \in [Sockets -> ReadyStates]
    /\ Len(calls) <= MaxTransports
    /\ explicitShutdown \in BOOLEAN
    /\ reconnectDelay \in {NoDelay} \cup {reconnectDelayOf(r) : r \in Randoms}
    /\ (reconnectDelay # NoDelay) <=> (reconnectTimeout = "armed")
    /\ heartbeatSent \in [sock : Sockets \cup {NoSocket}, unacked : BOOLEAN, outstanding : BOOLEAN]
    /\ normalClosure \in BOOLEAN
    /\ \A i \in DOMAIN messageHandlers :
          messageHandlers[i].key \in EventNames /\ messageHandlers[i].value \in Handlers
    /\ Len(delivered) <= 2
    /\ \A e \in EmitterEvents :
          /\ Len(_events[e]) <= MaxListeners
          /\ \A i \in DOMAIN _events[e] : _events[e][i].fn \in ListenerFns
    /\ Len(invoked) <= MaxListeners
    /\ gptClient.pc \in {"none", "idle", "request", "waiting", "returned", "thrown"}
    /\ gptClient.maxRetries \in 0..MaxRetries
    /\ gptClient.retries \in 0..(MaxRetries + 1)
    /\ last.complete \in BOOLEAN
    /\ last.s \in SeqOrNull
====
